---------------------------- MODULE Spec2Model ----------------------------
(***************************************************************************)
(* conda-verify: the archive validator CondaPackageCheck and the recipe    *)
(* validator CondaRecipeCheck of conda_verify/checks.py.                   *)
(*                                                                         *)
(* Strings are TLA+ strings; TLC evaluates Len, \o and SubSeq on them, so   *)
(* Python's str operations are modelled character by character.            *)
(***************************************************************************)
EXTENDS Integers, Sequences, FiniteSets, TLC

(***************************************************************************)
(* Bounds of the model.                                                    *)
(***************************************************************************)
\* pieces of a file-name stem
MaxStem == 5
\* additional archive members besides info/index.json
MaxExtra == 2
\* lines of info/files
MaxLines == 2

(***************************************************************************)
(* Python str primitives.                                                  *)
(***************************************************************************)
CharAt(s, i) == SubSeq(s, i, i)

Chars(s) == {CharAt(s, i) : i \in 1..Len(s)}

\* the printable ASCII characters in code order: 32 (space) to 95, and 97 to
\* 126 (a TLA+ string cannot hold the character 96)
PrintableLow == " !\"#$%&'()*+,-./0123456789:;<=>?@ABCDEFGHIJKLMNOPQRSTUVWXYZ[\\]^_"

PrintableHigh == "abcdefghijklmnopqrstuvwxyz{|}~"

Upper == "ABCDEFGHIJKLMNOPQRSTUVWXYZ"

Lowercase == "abcdefghijklmnopqrstuvwxyz"

Whitespace == {" ", "\t", "\n", "\r"}

Quotes == {"\"", "'"}

IndexIn(tbl, c) ==
  LET I == {i \in 1..Len(tbl) : CharAt(tbl, i) = c}
  IN IF I = {} THEN 0 ELSE CHOOSE i \in I : \A j \in I : i <= j

\* the code point of a character: 10 for LF, 9 for TAB, 13 for CR, 32..126
\* for the printable ones, and a value above 127 for anything else
OrdAt(c, lo, hi) ==
  IF c = "\n" THEN 10
  ELSE IF c = "\t" THEN 9
  ELSE IF c = "\r" THEN 13
  ELSE IF lo > 0 THEN lo + 31
  ELSE IF hi > 0 THEN hi + 96
  ELSE 233

Ord(c) == OrdAt(c, IndexIn(PrintableLow, c), IndexIn(PrintableHigh, c))

endswith(s, suffix) ==
  /\ Len(s) >= Len(suffix)
  /\ SubSeq(s, Len(s) - Len(suffix) + 1, Len(s)) = suffix

startswith(s, prefix) ==
  /\ Len(s) >= Len(prefix)
  /\ SubSeq(s, 1, Len(prefix)) = prefix

\* s[:-n]
DropLast(s, n) == IF Len(s) <= n THEN "" ELSE SubSeq(s, 1, Len(s) - n)

\* s[n:]
DropFirst(s, n) == IF Len(s) <= n THEN "" ELSE SubSeq(s, n + 1, Len(s))

RECURSIVE lstrip(_, _)
lstrip(s, chars) ==
  IF Len(s) > 0 /\ CharAt(s, 1) \in chars THEN lstrip(DropFirst(s, 1), chars)
  ELSE s

RECURSIVE rstrip(_, _)
rstrip(s, chars) ==
  IF Len(s) > 0 /\ CharAt(s, Len(s)) \in chars THEN rstrip(DropLast(s, 1), chars)
  ELSE s

strip(s, chars) == rstrip(lstrip(s, chars), chars)

RECURSIVE lower(_)
lower(s) ==
  IF s = "" THEN ""
  ELSE LET c == CharAt(s, 1)
           i == IndexIn(Upper, c)
       IN (IF i > 0 THEN CharAt(Lowercase, i) ELSE c) \o lower(DropFirst(s, 1))

LastIndexOf(s, c) ==
  LET I == {i \in 1..Len(s) : CharAt(s, i) = c}
  IN IF I = {} THEN 0 ELSE CHOOSE i \in I : \A j \in I : j <= i

FirstIndexOf(s, c) == IndexIn(s, c)

\* s.rsplit(sep, maxsplit) for a one-character separator
RECURSIVE rsplit(_, _, _)
rsplit(s, sep, maxsplit) ==
  LET i == LastIndexOf(s, sep)
  IN IF maxsplit = 0 \/ i = 0 THEN <<s>>
     ELSE rsplit(SubSeq(s, 1, i - 1), sep, maxsplit - 1)
            \o <<SubSeq(s, i + 1, Len(s))>>

\* s.splitlines(), for LF line ends
RECURSIVE splitlines(_)
splitlines(s) ==
  IF s = "" THEN <<>>
  ELSE LET i == FirstIndexOf(s, "\n")
       IN IF i = 0 THEN <<s>>
          ELSE <<SubSeq(s, 1, i - 1)>> \o splitlines(DropFirst(s, i))

\* os.path.basename
basename(path) == DropFirst(path, LastIndexOf(path, "/"))

\* a < b in Python's string order
RECURSIVE StrLess(_, _)
StrLess(a, b) ==
  IF b = "" THEN FALSE
  ELSE IF a = "" THEN TRUE
  ELSE IF CharAt(a, 1) = CharAt(b, 1) THEN StrLess(DropFirst(a, 1), DropFirst(b, 1))
  ELSE Ord(CharAt(a, 1)) < Ord(CharAt(b, 1))

\* sorted(S) for a set of strings
RECURSIVE sorted(_)
sorted(S) ==
  IF S = {} THEN <<>>
  ELSE LET m == CHOOSE x \in S : \A y \in S \ {x} : StrLess(x, y)
       IN <<m>> \o sorted(S \ {m})

Range(f) == {f[i] : i \in DOMAIN f}

(***************************************************************************)
(* Values.  A Python dict is a function whose domain is its keys; None is   *)
(* the string below, which no input of the model contains.                 *)
(***************************************************************************)
None == "<None>"

get(d, key, default) == IF key \in DOMAIN d THEN d[key] ELSE default

\* the outcome of a call: the exception raised ("none": it returned), the
\* message's format and argument, the lines printed, the entries extracted
Returned == [exc |-> "none", fmt |-> "", arg |-> "", printed |-> <<>>, reads |-> <<>>]

Raise(exc, fmt, arg, printed, reads) ==
  [exc |-> exc, fmt |-> fmt, arg |-> arg, printed |-> printed, reads |-> reads]

(***************************************************************************)
(* The tarfile archive: tarfile.open, getmembers, extractfile.  A member    *)
(* has a path, a type, and its content: text for the manifests, bytes for  *)
(* binaries, json (the decoded document, or undecodable) for index.json.   *)
(***************************************************************************)
NoJson == [valid |-> FALSE, obj |-> <<>>]

File(path, text) ==
  [path |-> path, type |-> "file", text |-> text, bytes |-> <<>>, json |-> NoJson]

Dir(path) ==
  [path |-> path, type |-> "dir", text |-> "", bytes |-> <<>>, json |-> NoJson]

Binary(path, bytes) ==
  [path |-> path, type |-> "file", text |-> "", bytes |-> bytes, json |-> NoJson]

JsonFile(path, obj) ==
  [path |-> path, type |-> "file", text |-> "", bytes |-> <<>>,
   json |-> [valid |-> TRUE, obj |-> obj]]

isdir(m) == m.type = "dir"

getmembers(tar) == tar.members

\* TarFile.getmember: the last member of that name; 0 when there is none
\* (a KeyError in Python)
getmember(tar, name) ==
  LET I == {i \in 1..Len(tar.members) : tar.members[i].path = name}
  IN IF I = {} THEN 0 ELSE CHOOSE i \in I : \A j \in I : j <= i

(***************************************************************************)
(* conda_verify.utils and conda_verify.const, as the specification gives    *)
(* them.                                                                   *)
(***************************************************************************)
\* path separators, control characters, shell metacharacters
BadChars == {"/", "\\", "\t", "\n", "\r", ";", "|", "&", "$", "<", ">", "*", "?"}

get_bad_seq(s) ==
  LET I == {i \in 1..Len(s) : CharAt(s, i) \in BadChars}
  IN IF I = {} THEN None ELSE CharAt(s, CHOOSE i \in I : \A j \in I : i <= j)

\* ASCII only, unless the target is Windows, where a wider encoding passes
all_ascii(data, win) == win \/ \A c \in Chars(data) : Ord(c) < 128

\* the fixed list of recognized license families
LICENSE_FAMILIES ==
  <<"AGPL", "GPL2", "GPL3", "LGPL", "BSD", "MIT", "Apache", "PSF",
    "Public-Domain", "Proprietary", "Other">>

\* get_field(meta, 'section/key', default)
get_field(meta, section, key, default) ==
  IF section \in DOMAIN meta /\ key \in DOMAIN meta[section]
  THEN meta[section][key] ELSE default

(***************************************************************************)
(* State.                                                                  *)
(***************************************************************************)
VARIABLES
  path,      \* the archive file path given to CondaPackageCheck
  tar,       \* the archive at that path: [ok, members]
  common,    \* what conda_verify.common's checkers answer for this package
  meta,      \* the recipe metadata given to CondaRecipeCheck
  pkg,       \* the CondaPackageCheck object's attributes
  pc,        \* "new", "ready" (constructed), "raised" (a call raised),
             \* "done" (the run is over and the archive released)
  last,      \* the method of CondaPackageCheck called last
  out,       \* that call's outcome
  r_pc,      \* CondaRecipeCheck.check_license_family: "new", "done", "raised"
  r_out      \* its outcome

vars == <<path, tar, common, meta, pkg, pc, last, out, r_pc, r_out>>

inputs == <<path, tar, common, meta>>

\* the attributes before __init__ has assigned any
NoAttrs ==
  [path |-> "", archive |-> "none", dist |-> "", name |-> "", version |-> "",
   build |-> "", paths |-> {}, index |-> NoJson, info |-> <<>>, win_pkg |-> FALSE]

(***************************************************************************)
(* CondaPackageCheck.check_package_name and __init__.                      *)
(***************************************************************************)
\* check_package_name_of with the suffix ".tar.bz2" cut one character short
check_package_name_of_cut7(base, seq) ==
  IF seq # None
  THEN [exc |-> "PackageError", fmt |-> "'%s' not allowed in file name '%s'",
        arg |-> seq, value |-> ""]
  ELSE IF endswith(base, ".tar.bz2")
  THEN [exc |-> "none", fmt |-> "", arg |-> "", value |-> DropLast(base, 7)]
  ELSE IF endswith(base, ".tar")
  THEN [exc |-> "none", fmt |-> "", arg |-> "", value |-> DropLast(base, 4)]
  ELSE [exc |-> "PackageError", fmt |-> "did not expect filename: %s",
        arg |-> base, value |-> ""]

\* check_package_name after path = os.path.basename(path)
check_package_name_of(base, seq) ==
  IF seq # None
  THEN [exc |-> "PackageError", fmt |-> "'%s' not allowed in file name '%s'",
        arg |-> seq, value |-> ""]
  ELSE IF endswith(base, ".tar.bz2")
  THEN [exc |-> "none", fmt |-> "", arg |-> "", value |-> DropLast(base, 8)]
  ELSE IF endswith(base, ".tar")
  THEN [exc |-> "none", fmt |-> "", arg |-> "", value |-> DropLast(base, 4)]
  ELSE [exc |-> "PackageError", fmt |-> "did not expect filename: %s",
        arg |-> base, value |-> ""]

check_package_name_base(base) == check_package_name_of(base, get_bad_seq(base))

check_package_name(p) == check_package_name_base(basename(p))

\* __init__ from its last three statements on: self.index, self.info,
\* self.win_pkg.  i is the archive's index of info/index.json
init_index(self, t, i) ==
  IF i = 0
  THEN [self |-> self,
        out |-> Raise("KeyError", "filename %r not found", "info/index.json", <<>>, <<>>)]
  ELSE IF ~getmembers(t)[i].json.valid
  THEN [self |-> [self EXCEPT !.index = getmembers(t)[i].json],
        out |-> Raise("ValueError", "json.loads", "info/index.json",
                      <<>>, <<"info/index.json">>)]
  ELSE IF "platform" \notin DOMAIN getmembers(t)[i].json.obj
  THEN [self |-> [self EXCEPT !.index = getmembers(t)[i].json,
                              !.info = getmembers(t)[i].json.obj],
        out |-> Raise("KeyError", "%r", "platform", <<>>, <<"info/index.json">>)]
  ELSE [self |-> [self EXCEPT !.index = getmembers(t)[i].json,
                              !.info = getmembers(t)[i].json.obj,
                              !.win_pkg = (getmembers(t)[i].json.obj["platform"] = "win")],
        out |-> [Returned EXCEPT !.reads = <<"info/index.json">>]]

\* __init__ from "self.name, self.version, self.build = ..." on; parts is
\* self.dist.rsplit('-', 2)
init_split(self, t, parts) ==
  IF Len(parts) # 3
  THEN [self |-> self,
        out |-> Raise("ValueError", "not enough values to unpack", self.dist, <<>>, <<>>)]
  ELSE init_index([self EXCEPT !.name = parts[1], !.version = parts[2],
                               !.build = parts[3],
                               !.paths = {m.path : m \in Range(getmembers(t))}],
                  t, getmember(t, "info/index.json"))

\* __init__ after tarfile.open; d is what check_package_name(self.path) gave
init_dist(self, t, d) ==
  IF d.exc # "none"
  THEN [self |-> self, out |-> Raise(d.exc, d.fmt, d.arg, <<>>, <<>>)]
  ELSE init_split([self EXCEPT !.dist = d.value], t, rsplit(d.value, "-", 2))

\* the object's attributes as far as __init__ assigned them, and the outcome
CondaPackageCheck_init(p, t) ==
  IF ~t.ok
  THEN [self |-> [NoAttrs EXCEPT !.path = p],
        out |-> Raise("ReadError", "file could not be opened successfully", p, <<>>, <<>>)]
  ELSE init_dist([NoAttrs EXCEPT !.path = p, !.archive = "open"], t,
                 check_package_name(p))

(***************************************************************************)
(* CondaPackageCheck.check_duplicate_members.                              *)
(***************************************************************************)
\* check_duplicate_members comparing with < in place of !=
check_duplicate_members_less(self, t) ==
  IF Len(getmembers(t)) < Cardinality(self.paths)
  THEN Raise("PackageError", "duplicate members", "", <<>>, <<>>)
  ELSE Returned

check_duplicate_members(self, t) ==
  IF Len(getmembers(t)) # Cardinality(self.paths)
  THEN Raise("PackageError", "duplicate members", "", <<>>, <<>>)
  ELSE Returned

(***************************************************************************)
(* CondaPackageCheck.info_files.                                           *)
(***************************************************************************)
\* the loop over sorted(seta | setb) that prints the differences
RECURSIVE info_files_report(_, _, _)
info_files_report(ps, seta, setb) ==
  IF ps = <<>> THEN <<>>
  ELSE (IF Head(ps) \notin seta
        THEN <<[fmt |-> "%r not in info/files", arg |-> Head(ps)]>> ELSE <<>>)
       \o (IF Head(ps) \notin setb
           THEN <<[fmt |-> "%r not in tarball", arg |-> Head(ps)]>> ELSE <<>>)
       \o info_files_report(Tail(ps), seta, setb)

\* info_files from "if seta == setb" on
info_files_compare(seta, setb) ==
  IF seta = setb
  THEN [Returned EXCEPT !.reads = <<"info/files">>]
  ELSE Raise("PackageError", "info/files", "",
             info_files_report(sorted(seta \cup setb), seta, setb), <<"info/files">>)

\* the first index of lista whose path starts with info/; 0 when none does
info_files_unexpected(lista) ==
  LET bad == {k \in 1..Len(lista) : startswith(lista[k], "info/")}
  IN IF bad = {} THEN 0 ELSE CHOOSE k \in bad : \A j \in bad : k <= j

\* info_files_lista without the check for duplicates
info_files_lista_nodup(t, lista, k) ==
  IF k # 0
  THEN Raise("PackageError", "Did not expect '%s' in info/files", lista[k],
             <<>>, <<"info/files">>)
  ELSE info_files_compare(
         Range(lista),
         {m.path : m \in Range(SelectSeq(getmembers(t),
                     LAMBDA m : ~(startswith(m.path, "info/") \/ isdir(m))))})

\* info_files from "for p in lista" on
info_files_lista(t, lista, k) ==
  IF k # 0
  THEN Raise("PackageError", "Did not expect '%s' in info/files", lista[k],
             <<>>, <<"info/files">>)
  ELSE IF Len(lista) # Cardinality(Range(lista))
  THEN Raise("PackageError", "info/files: duplicates", "", <<>>, <<"info/files">>)
  ELSE info_files_compare(
         Range(lista),
         {m.path : m \in Range(SelectSeq(getmembers(t),
                     LAMBDA m : ~(startswith(m.path, "info/") \/ isdir(m))))})

\* [p.strip() for p in lines]
strip_all(lines) == [k \in 1..Len(lines) |-> strip(lines[k], Whitespace)]

info_files_listed(t, lista) == info_files_lista(t, lista, info_files_unexpected(lista))

\* info_files after raw = self.archive.extractfile('info/files').read()
info_files_raw(self, t, raw) ==
  IF ~all_ascii(raw, self.win_pkg)
  THEN Raise("PackageError", "non-ASCII in: info/files", "", <<>>, <<"info/files">>)
  ELSE info_files_listed(t, strip_all(splitlines(raw)))

info_files(self, t) ==
  IF getmember(t, "info/files") = 0
  THEN Raise("KeyError", "filename %r not found", "info/files", <<>>, <<>>)
  ELSE info_files_raw(self, t, getmembers(t)[getmember(t, "info/files")].text)

(***************************************************************************)
(* CondaPackageCheck.index_json.                                           *)
(***************************************************************************)
\* the first truthy result of lst, None when there is none
index_json_first(lst) ==
  LET I == {k \in 1..Len(lst) : lst[k] # None}
  IN IF I = {} THEN None ELSE lst[CHOOSE k \in I : \A j \in I : k <= j]

index_json(self, cm) ==
  LET info == self.info
      missing == {k \in 1..3 : <<"name", "version", "build">>[k] \notin DOMAIN info}
      differ == {k \in 1..3 : /\ <<"name", "version", "build">>[k] \in DOMAIN info
                              /\ info[<<"name", "version", "build">>[k]]
                                   # self[<<"name", "version", "build">>[k]]}
      stop == missing \cup differ
      k0 == CHOOSE k \in stop : \A j \in stop : k <= j
      res == index_json_first(<<cm.check_name, cm.check_version,
                                cm.check_build_number, cm.check_build_string>>)
      lf == get(info, "license_family", get(info, "license", None))
  IN IF stop # {} /\ k0 \in missing
     THEN Raise("KeyError", "%r", <<"name", "version", "build">>[k0], <<>>, <<>>)
     ELSE IF stop # {}
     THEN Raise("PackageError", "info/index.json for %s: %r != %r",
                <<"name", "version", "build">>[k0], <<>>, <<>>)
     ELSE IF "build_number" \notin DOMAIN info
     THEN Raise("KeyError", "%r", "build_number", <<>>, <<>>)
     ELSE IF info["build_number"].type # "int"
     THEN Raise("PackageError", "info/index.json: invalid build_number: %s",
                info["build_number"].repr, <<>>, <<>>)
     ELSE IF res # None
     THEN Raise("PackageError", "info/index.json: %s", res, <<>>, <<>>)
     ELSE IF "depends" \notin DOMAIN info
     THEN Raise("PackageError", "info/index.json: key 'depends' missing", "", <<>>, <<>>)
     ELSE IF cm.check_specs # None
     THEN Raise("PackageError", "info/index.json: %s", cm.check_specs, <<>>, <<>>)
     ELSE IF lf \notin Range(LICENSE_FAMILIES)
     THEN Raise("PackageError", "wrong license family: %s", lf, <<>>, <<>>)
     ELSE Returned

(***************************************************************************)
(* CondaPackageCheck.no_bat_and_exe.                                       *)
(***************************************************************************)
RECURSIVE join(_, _)
join(sep, ss) ==
  IF ss = <<>> THEN ""
  ELSE IF Len(ss) = 1 THEN ss[1]
  ELSE ss[1] \o sep \o join(sep, Tail(ss))

\* no_bat_and_exe with bats | exes in place of bats & exes
no_bat_and_exe_union(self) ==
  LET bats == {DropLast(p, 4) : p \in {q \in self.paths : endswith(q, ".bat")}}
      exes == {DropLast(p, 4) : p \in {q \in self.paths : endswith(q, ".exe")}}
      both == bats \cup exes
  IN IF both # {}
     THEN Raise("PackageError", "Both .bat and .exe files: %s",
                join(", ", sorted(both)), <<>>, <<>>)
     ELSE Returned

no_bat_and_exe(self) ==
  LET bats == {DropLast(p, 4) : p \in {q \in self.paths : endswith(q, ".bat")}}
      exes == {DropLast(p, 4) : p \in {q \in self.paths : endswith(q, ".exe")}}
      both == bats \cap exes
  IN IF both # {}
     THEN Raise("PackageError", "Both .bat and .exe files: %s",
                join(", ", sorted(both)), <<>>, <<>>)
     ELSE Returned

(***************************************************************************)
(* shlex.split(line, posix=False): whitespace separates tokens; a token     *)
(* that starts with a quote runs to the matching quote, both kept, and      *)
(* ends there; a quote inside a token is an ordinary character.  An        *)
(* unclosed quote is a ValueError (ok = FALSE).                            *)
(***************************************************************************)
\* the first index from i on whose character is in (hit) or not in (~hit)
\* the set cs; Len(s) + 1 when there is none
Scan(s, i, cs, hit) ==
  LET I == {j \in i..Len(s) : (CharAt(s, j) \in cs) = hit}
  IN IF I = {} THEN Len(s) + 1 ELSE CHOOSE j \in I : \A k \in I : j <= k

\* read_token from index i on, in the state between tokens
RECURSIVE shlex_read(_, _, _)
shlex_read(s, i, toks) ==
  LET start == Scan(s, i, Whitespace, FALSE)
      close == Scan(s, start + 1, {CharAt(s, start)}, TRUE)
      stop == Scan(s, start, Whitespace, TRUE)
  IN IF start > Len(s) THEN [ok |-> TRUE, toks |-> toks]
     ELSE IF CharAt(s, start) \in Quotes
     THEN IF close > Len(s) THEN [ok |-> FALSE, toks |-> toks]
          ELSE shlex_read(s, close + 1, Append(toks, SubSeq(s, start, close)))
     ELSE shlex_read(s, stop, Append(toks, SubSeq(s, start, stop - 1)))

shlex_split(s) == shlex_read(s, 1, <<>>)

(***************************************************************************)
(* CondaPackageCheck._check_has_prefix_line and has_prefix.                *)
(***************************************************************************)
\* has_prefix_unpack whose except branch gives the mode 'binary'
has_prefix_unpack_binary(line, sp) ==
  IF sp.ok /\ Len(sp.toks) = 3
  THEN [placeholder |-> strip(sp.toks[1], Quotes), mode |-> strip(sp.toks[2], Quotes),
        f |-> strip(sp.toks[3], Quotes)]
  ELSE [placeholder |-> "/<dummy>/<placeholder>", mode |-> "binary", f |-> line]

\* the unpacking of the stripped tokens, and the except branch
has_prefix_unpack(line, sp) ==
  IF sp.ok /\ Len(sp.toks) = 3
  THEN [placeholder |-> strip(sp.toks[1], Quotes), mode |-> strip(sp.toks[2], Quotes),
        f |-> strip(sp.toks[3], Quotes)]
  ELSE [placeholder |-> "/<dummy>/<placeholder>", mode |-> "text", f |-> line]

has_prefix_try(line) == has_prefix_unpack(line, shlex_split(line))

\* the try/except of _check_has_prefix_line: (placeholder, mode, f)
has_prefix_fields(line) == has_prefix_try(strip(line, Whitespace))

\* has_prefix_record without the test of the placeholder's length
has_prefix_record_anylen(self, r) ==
  IF r.f \notin self.paths
  THEN Raise("PackageError", "info/has_prefix: target '%s' not in package",
             r.f, <<>>, <<>>)
  ELSE IF r.mode = "binary"
  THEN IF self.name = "python"
       THEN Raise("PackageError", "binary placeholder not allowed in Python",
                  "", <<>>, <<>>)
       ELSE IF self.win_pkg
       THEN Raise("PackageError", "binary placeholder not allowed on Windows",
                  "", <<>>, <<>>)
       ELSE Returned
  ELSE IF r.mode = "text"
  THEN Returned
  ELSE Raise("PackageError", "info/has_prefix: invalid mode", "", <<>>, <<>>)

\* _check_has_prefix_line from "if f not in self.paths" on
has_prefix_record(self, r) ==
  IF r.f \notin self.paths
  THEN Raise("PackageError", "info/has_prefix: target '%s' not in package",
             r.f, <<>>, <<>>)
  ELSE IF r.mode = "binary"
  THEN IF self.name = "python"
       THEN Raise("PackageError", "binary placeholder not allowed in Python",
                  "", <<>>, <<>>)
       ELSE IF self.win_pkg
       THEN Raise("PackageError", "binary placeholder not allowed on Windows",
                  "", <<>>, <<>>)
       ELSE IF Len(r.placeholder) # 255
       THEN Raise("PackageError",
                  "info/has_prefix: binary placeholder not 255 bytes, but: %d",
                  r.placeholder, <<>>, <<>>)
       ELSE Returned
  ELSE IF r.mode = "text"
  THEN Returned
  ELSE Raise("PackageError", "info/has_prefix: invalid mode", "", <<>>, <<>>)

_check_has_prefix_line(self, line) == has_prefix_record(self, has_prefix_fields(line))

\* r, when it raised, else rest
OrElse(r, rest) == IF r.exc # "none" THEN r ELSE rest

\* the loop over the lines of info/has_prefix, from line k on: the first
\* line that raises
RECURSIVE has_prefix_lines(_, _, _)
has_prefix_lines(self, lines, k) ==
  IF k > Len(lines) THEN Returned
  ELSE OrElse(_check_has_prefix_line(self, lines[k]),
              has_prefix_lines(self, lines, k + 1))

\* one member named info/has_prefix: data is what it holds; r is the outcome
\* of its lines, rest that of the members after it
has_prefix_member(self, data, r, rest, printed, reads) ==
  IF ~all_ascii(data, self.win_pkg)
  THEN Raise("PackageError", "non-ASCII in: info/has_prefix", "", printed, reads)
  ELSE IF r.exc # "none"
  THEN Raise(r.exc, r.fmt, r.arg, printed, reads)
  ELSE rest

has_prefix_data(self, data, rest, printed, reads) ==
  has_prefix_member(self, data, has_prefix_lines(self, splitlines(data), 1), rest,
                    printed, reads)

\* the loop over the members, from member k on
RECURSIVE has_prefix_from(_, _, _, _, _)
has_prefix_from(self, t, k, printed, reads) ==
  IF k > Len(getmembers(t))
  THEN [Returned EXCEPT !.printed = printed, !.reads = reads]
  ELSE IF getmembers(t)[k].path # "info/has_prefix"
  THEN has_prefix_from(self, t, k + 1, printed, reads)
  ELSE has_prefix_data(
         self, getmembers(t)[getmember(t, "info/has_prefix")].text,
         has_prefix_from(self, t, k + 1,
           IF self.win_pkg
           THEN Append(printed, [fmt |-> "WARNING: %s", arg |-> "info/has_prefix"])
           ELSE printed,
           Append(reads, "info/has_prefix")),
         IF self.win_pkg
         THEN Append(printed, [fmt |-> "WARNING: %s", arg |-> "info/has_prefix"])
         ELSE printed,
         Append(reads, "info/has_prefix"))

has_prefix(self, t) == has_prefix_from(self, t, 1, <<>>, <<>>)

(***************************************************************************)
(* conda_verify.utils.get_object_type, as the specification gives it: the  *)
(* MZ signature, the 32-bit little-endian offset at 0x3C, the bounds       *)
(* check, the PE signature, the 16-bit machine type.                       *)
(***************************************************************************)
get_object_type(data) ==
  LET off == data[61] + 256 * data[62] + 65536 * data[63] + 16777216 * data[64]
      machine == data[off + 5] + 256 * data[off + 6]
  IN IF Len(data) < 2 \/ SubSeq(data, 1, 2) # <<77, 90>> THEN None
     ELSE IF Len(data) < 64 THEN None
     ELSE IF off + 6 > Len(data) THEN None
     ELSE IF SubSeq(data, off + 1, off + 4) # <<80, 69, 0, 0>> THEN None
     ELSE IF machine = 332 THEN "DLL I386"
     ELSE IF machine = 34404 THEN "DLL AMD64"
     ELSE None

\* file.read(n)
read(bytes, n) == IF Len(bytes) <= n THEN bytes ELSE SubSeq(bytes, 1, n)

(***************************************************************************)
(* CondaPackageCheck.check_windows_arch.                                   *)
(***************************************************************************)
\* check_windows_arch_from testing the name as it is, not lowercased
RECURSIVE check_windows_arch_from_exact(_, _, _, _)
check_windows_arch_from_exact(t, arch, k, reads) ==
  IF k > Len(getmembers(t)) THEN [Returned EXCEPT !.reads = reads]
  ELSE LET m == getmembers(t)[k]
           data == read(getmembers(t)[getmember(t, m.path)].bytes, 4096)
           tp == get_object_type(data)
       IN IF ~(endswith(m.path, ".exe") \/ endswith(m.path, ".dll"))
          THEN check_windows_arch_from_exact(t, arch, k + 1, reads)
          ELSE IF \/ (arch = "x86" /\ tp # "DLL I386")
                  \/ (arch = "x86_64" /\ tp # "DLL AMD64")
          THEN Raise("PackageError",
                     "File %s has object type %s, but info/index.json arch is %s",
                     m.path, <<>>, Append(reads, m.path))
          ELSE check_windows_arch_from_exact(t, arch, k + 1, Append(reads, m.path))

\* the loop over the members, from member k on
RECURSIVE check_windows_arch_from(_, _, _, _)
check_windows_arch_from(t, arch, k, reads) ==
  IF k > Len(getmembers(t)) THEN [Returned EXCEPT !.reads = reads]
  ELSE LET m == getmembers(t)[k]
           data == read(getmembers(t)[getmember(t, m.path)].bytes, 4096)
           tp == get_object_type(data)
       IN IF ~(endswith(lower(m.path), ".exe") \/ endswith(lower(m.path), ".dll"))
          THEN check_windows_arch_from(t, arch, k + 1, reads)
          ELSE IF \/ (arch = "x86" /\ tp # "DLL I386")
                  \/ (arch = "x86_64" /\ tp # "DLL AMD64")
          THEN Raise("PackageError",
                     "File %s has object type %s, but info/index.json arch is %s",
                     m.path, <<>>, Append(reads, m.path))
          ELSE check_windows_arch_from(t, arch, k + 1, Append(reads, m.path))

\* the packages check_windows_arch leaves alone
ArchExempt ==
  {"python", "conda-build", "pip", "xlwings", "phantomjs", "qt", "graphviz", "nsis",
   "swig"}

\* check_windows_arch without the return for other platforms
check_windows_arch_anyplatform(self, t) ==
  IF self.name \in ArchExempt
  THEN Returned
  ELSE IF "arch" \notin DOMAIN self.info
  THEN Raise("KeyError", "%r", "arch", <<>>, <<>>)
  ELSE IF self.info["arch"] \notin {"x86", "x86_64"}
  THEN Raise("PackageError", "Unrecognized Windows architecture: %s",
             self.info["arch"], <<>>, <<>>)
  ELSE check_windows_arch_from(t, self.info["arch"], 1, <<>>)

check_windows_arch(self, t) ==
  IF self.name \in ArchExempt
  THEN Returned
  ELSE IF ~self.win_pkg
  THEN Returned
  ELSE IF "arch" \notin DOMAIN self.info
  THEN Raise("KeyError", "%r", "arch", <<>>, <<>>)
  ELSE IF self.info["arch"] \notin {"x86", "x86_64"}
  THEN Raise("PackageError", "Unrecognized Windows architecture: %s",
             self.info["arch"], <<>>, <<>>)
  ELSE check_windows_arch_from(t, self.info["arch"], 1, <<>>)

(***************************************************************************)
(* CondaRecipeCheck.check_license_family.                                  *)
(***************************************************************************)
\* check_license_family without the fallback to about/license
check_license_family_nofallback(mt) ==
  LET lf == get_field(mt, "about", "license_family", None)
  IN IF lf \notin Range(LICENSE_FAMILIES)
     THEN Raise("RecipeError", "wrong license family", "",
                <<[fmt |-> "Error: license_family is invalid: %s", arg |-> lf]>>
                  \o [k \in 1..Len(LICENSE_FAMILIES) |->
                        [fmt |-> "  - %s", arg |-> LICENSE_FAMILIES[k]]],
                <<>>)
     ELSE Returned

check_license_family(mt) ==
  LET lf == get_field(mt, "about", "license_family",
                      get_field(mt, "about", "license", None))
  IN IF lf \notin Range(LICENSE_FAMILIES)
     THEN Raise("RecipeError", "wrong license family", "",
                <<[fmt |-> "Error: license_family is invalid: %s", arg |-> lf]>>
                  \o [k \in 1..Len(LICENSE_FAMILIES) |->
                        [fmt |-> "  - %s", arg |-> LICENSE_FAMILIES[k]]],
                <<>>)
     ELSE Returned

(***************************************************************************)
(* Inputs: the archives, file names and recipes the runs start from.       *)
(***************************************************************************)
RECURSIVE SeqsUpTo(_, _)
SeqsUpTo(S, n) ==
  IF n = 0 THEN {<<>>}
  ELSE LET R == SeqsUpTo(S, n - 1)
       IN R \cup {Append(r, x) : r \in {q \in R : Len(q) = n - 1}, x \in S}

\* c * n
RECURSIVE Rep(_, _)
Rep(c, n) ==
  IF n = 0 THEN ""
  ELSE LET h == Rep(c, n \div 2)
       IN IF n % 2 = 0 THEN h \o h ELSE h \o h \o c

\* an index.json that passes index_json for the file name n-v-b
IndexOf(n, v, b, platform) ==
  [name |-> n, version |-> v, build |-> b,
   build_number |-> [type |-> "int", repr |-> "0"],
   depends |-> <<>>, platform |-> platform, subdir |-> "linux-64",
   license_family |-> "MIT"]

Without(d, keys) == [k \in DOMAIN d \ keys |-> d[k]]

\* a text file of these lines, each ended by LF
RECURSIVE Unlines(_)
Unlines(lines) == IF lines = <<>> THEN "" ELSE Head(lines) \o "\n" \o Unlines(Tail(lines))

IndexMember(info) == JsonFile("info/index.json", info)

CommonOk ==
  [check_name |-> None, check_version |-> None, check_build_number |-> None,
   check_build_string |-> None, check_specs |-> None]

MetaOk == [about |-> [license_family |-> "MIT"]]

PkgPath == "pkg-1.0-0.tar.bz2"

PkgIndex(platform) == IndexOf("pkg", "1.0", "0", platform)

\* file names: a directory, a stem of up to MaxStem pieces, an extension
StemPieces == {"a", "-", ";"}

Stems == {join("", ps) : ps \in SeqsUpTo(StemPieces, MaxStem)}

Exts == {".tar.bz2", ".tar", "", ".bz2", ".tar.gz", ".tar.bz2.tar"}

Dirs == {"", "d;/"}

InitNames ==
  /\ path \in {d \o st \o e : d \in Dirs, st \in Stems, e \in Exts}
  /\ tar = [ok |-> TRUE, members |-> <<IndexMember(IndexOf("a", "a", "a", "linux"))>>]
  /\ common = CommonOk
  /\ meta = MetaOk

\* archives that cannot be opened or hold no usable info/index.json
InitBroken ==
  /\ path = PkgPath
  /\ tar \in {[ok |-> FALSE, members |-> <<>>],
              [ok |-> TRUE, members |-> <<File("lib/foo.so", "")>>],
              [ok |-> TRUE, members |-> <<File("info/index.json", "{")>>],
              [ok |-> TRUE,
               members |-> <<IndexMember(Without(PkgIndex("linux"), {"platform"}))>>]}
  /\ common = CommonOk
  /\ meta = MetaOk

\* entry lists, with repeated paths and .bat/.exe twins
TwinPool ==
  {File("bin/t.bat", ""), File("bin/t.exe", ""), File("bin/u.exe", ""),
   File("bin/T.BAT", ""), File(".bat", ""), File(".exe", ""), Dir("lib")}

InitMembers ==
  /\ path = PkgPath
  /\ \E extra \in SeqsUpTo(TwinPool, MaxExtra) :
       tar = [ok |-> TRUE, members |-> <<IndexMember(PkgIndex("linux"))>> \o extra]
  /\ common = CommonOk
  /\ meta = MetaOk

\* info/files manifests against the archive's entries (entries of distinct
\* paths here; InitMembers has the repeated ones)
ManifestLines == {"a.so", "b.txt", " a.so ", "info/x", "é.txt"}

ManifestPool == {File("a.so", ""), File("c.txt", ""), Dir("lib")}

InitManifest ==
  /\ path = PkgPath
  /\ \E platform \in {"linux", "win"}, lines \in SeqsUpTo(ManifestLines, MaxLines),
        extra \in {e \in SeqsUpTo(ManifestPool, MaxExtra) :
                     Cardinality(Range(e)) = Len(e)} :
       tar = [ok |-> TRUE,
              members |-> <<IndexMember(PkgIndex(platform)),
                            File("info/files", Unlines(lines))>> \o extra]
  /\ common = CommonOk
  /\ meta = MetaOk

\* info/has_prefix records
Pad(n) == "/" \o Rep("p", n - 1)

Placeholders ==
  {Pad(255), Pad(254), Pad(256), "\"" \o Pad(255) \o "\"", "\"" \o Pad(253) \o "\"",
   "/p", "\"/p q\""}

PrefixRecords ==
  {ph \o " " \o mode \o " " \o f :
     ph \in Placeholders, mode \in {"binary", "text", "bogus"},
     f \in {"lib/foo.so", "lib/bar.so"}}

PrefixOdd ==
  {"lib/foo.so", "lib/bar.so", "", "/p text", "/p text lib/foo.so extra",
   "\"/p text lib/foo.so", "  lib/foo.so  ", "x y"}

PrefixPairs ==
  {"lib/foo.so", "lib/bar.so", Pad(255) \o " binary lib/foo.so", "/p text lib/bar.so",
   "x y z"}

InitPrefix ==
  /\ path \in {PkgPath, "python-3.6-0.tar.bz2"}
  /\ \E platform \in {"linux", "win"},
        lines \in {<<l>> : l \in PrefixRecords \cup PrefixOdd}
                    \cup {<<l1, l2>> : l1 \in PrefixPairs, l2 \in PrefixPairs} :
       tar = [ok |-> TRUE,
              members |-> <<IndexMember(PkgIndex(platform)), File("lib/foo.so", ""),
                            File("x y", ""),
                            File("info/has_prefix", Unlines(lines))>>]
  /\ common = CommonOk
  /\ meta = MetaOk

\* Windows binaries: a DOS header of 64 bytes with e_lfanew = 64, then the
\* PE signature and the machine type
PE(lo, hi) ==
  <<77, 90>> \o [k \in 1..58 |-> 0] \o <<64, 0, 0, 0>> \o <<80, 69, 0, 0>> \o <<lo, hi>>

PE_I386 == PE(76, 1)

PE_AMD64 == PE(100, 134)

\* the offset at 0x3C points past the end of the data
PE_Truncated == <<77, 90>> \o [k \in 1..58 |-> 0] \o <<64, 0, 0, 0>>

BinaryPool ==
  {Binary("a.dll", PE_I386), Binary("b.exe", PE_AMD64), Binary("Lib/C.DLL", PE_I386),
   Binary("d.dll", PE_Truncated), Binary("e.txt", PE_AMD64)}

InitArch ==
  /\ path \in {PkgPath, "pip-9.0-0.tar.bz2"}
  /\ \E platform \in {"linux", "win"}, arch \in {None, "x86", "x86_64", "arm64"},
        extra \in SeqsUpTo(BinaryPool, MaxExtra) :
       tar = [ok |-> TRUE,
              members |->
                <<IndexMember(IF arch = None THEN PkgIndex(platform)
                              ELSE PkgIndex(platform) @@ [arch |-> arch])>> \o extra]
  /\ common = CommonOk
  /\ meta = MetaOk

\* license fields of index.json and of the recipe, and the other answers
\* index_json depends on
LicenseDicts ==
  {Without([license_family |-> lf, license |-> l],
           {k \in {"license_family", "license"} :
              [license_family |-> lf, license |-> l][k] = None}) :
     lf \in {None, "MIT", "Foo"}, l \in {None, "BSD", "Bar"}}

CommonAnswers ==
  {CommonOk} \cup {[CommonOk EXCEPT ![k] = "invalid"] : k \in DOMAIN CommonOk}

IndexVariants ==
  {PkgIndex("linux"),
   [PkgIndex("linux") EXCEPT !.build_number = [type |-> "str", repr |-> "0"]],
   [PkgIndex("linux") EXCEPT !.name = "other"],
   Without(PkgIndex("linux"), {"depends"})}

InitLicense ==
  /\ path = PkgPath
  /\ \E lic \in LicenseDicts, base \in IndexVariants :
       tar = [ok |-> TRUE,
              members |-> <<IndexMember(lic @@ Without(base, {"license_family"}))>>]
  /\ common = CommonOk
  /\ \E lic \in LicenseDicts : meta = [about |-> lic]

\* what conda_verify.common answers about the index fields
InitCommon ==
  /\ path = PkgPath
  /\ \E lf \in {"MIT", "Foo"} :
       tar = [ok |-> TRUE,
              members |-> <<IndexMember([PkgIndex("linux") EXCEPT !.license_family = lf])>>]
  /\ common \in CommonAnswers
  /\ meta \in {MetaOk, [about |-> [license_family |-> "Foo"]]}

Init ==
  /\ \/ InitNames
     \/ InitBroken
     \/ InitMembers
     \/ InitManifest
     \/ InitPrefix
     \/ InitArch
     \/ InitLicense
     \/ InitCommon
  /\ pkg = NoAttrs
  /\ pc = "new"
  /\ last = ""
  /\ out = Returned
  /\ r_pc = "new"
  /\ r_out = Returned

(***************************************************************************)
(* Actions: the constructor, then the checks in any order; a check that     *)
(* raises ends the run.                                                    *)
(***************************************************************************)
Construct ==
  /\ pc = "new"
  /\ LET r == CondaPackageCheck_init(path, tar)
     IN /\ pkg' = r.self
        /\ out' = r.out
        /\ pc' = IF r.out.exc = "none" THEN "ready" ELSE "raised"
  /\ last' = "__init__"
  /\ UNCHANGED <<inputs, r_pc, r_out>>

Finish(method, r) ==
  /\ last' = method
  /\ out' = r
  /\ pc' = IF r.exc = "none" THEN "ready" ELSE "raised"
  /\ UNCHANGED <<inputs, pkg, r_pc, r_out>>

Call_check_duplicate_members ==
  /\ pc = "ready"
  /\ Finish("check_duplicate_members", check_duplicate_members(pkg, tar))

Call_info_files ==
  /\ pc = "ready"
  /\ Finish("info_files", info_files(pkg, tar))

Call_index_json ==
  /\ pc = "ready"
  /\ Finish("index_json", index_json(pkg, common))

Call_no_bat_and_exe ==
  /\ pc = "ready"
  /\ Finish("no_bat_and_exe", no_bat_and_exe(pkg))

Call_has_prefix ==
  /\ pc = "ready"
  /\ Finish("has_prefix", has_prefix(pkg, tar))

Call_check_windows_arch ==
  /\ pc = "ready"
  /\ Finish("check_windows_arch", check_windows_arch(pkg, tar))

Call_check_license_family ==
  /\ r_pc = "new"
  /\ r_out' = check_license_family(meta)
  /\ r_pc' = IF r_out'.exc = "none" THEN "done" ELSE "raised"
  /\ UNCHANGED <<inputs, pkg, pc, last, out>>

\* The driver of a validation run, as the specification gives it: it holds
\* the object the constructor returned, and once it has run the checks it
\* wants, or one of them has raised, it releases the archive.  When the
\* constructor raises, the driver gets no object and has nothing to release.
Release ==
  /\ \/ pc = "ready"
     \/ pc = "raised" /\ last # "__init__"
  /\ pkg.archive = "open"
  /\ pkg' = [pkg EXCEPT !.archive = "closed"]
  /\ pc' = "done"
  /\ UNCHANGED <<inputs, last, out, r_pc, r_out>>

Next ==
  \/ Construct
  \/ Call_check_duplicate_members
  \/ Call_info_files
  \/ Call_index_json
  \/ Call_no_bat_and_exe
  \/ Call_has_prefix
  \/ Call_check_windows_arch
  \/ Call_check_license_family
  \/ Release

Spec == Init /\ [][Next]_vars

\* a run is single-threaded and synchronous: the driver does not stop before
\* it has released the archive of the object it holds
FairSpec == Spec /\ WF_vars(Release)

(***************************************************************************)
(* Properties.                                                             *)
(***************************************************************************)
Count(s, c) == Cardinality({i \in 1..Len(s) : CharAt(s, i) = c})

\* the archive extension a file name ends in, None when it ends in neither
ExtOf(b) ==
  IF endswith(b, ".tar.bz2") THEN "tar.bz2"
  ELSE IF endswith(b, ".tar") THEN "tar"
  ELSE None

\* the file name without "." and its extension
StemOf(b) == DropLast(b, Len(ExtOf(b)) + 1)

HardFailures == {"PackageError", "PlatformError", "ArchiveError"}

\* the messages of the errors that resolving the file name can end in
NameErrors ==
  {"'%s' not allowed in file name '%s'", "did not expect filename: %s",
   "not enough values to unpack"}

\* C1: for a file name <name>-<version>-<build>.<ext>, ext tar.bz2 or tar,
\* without a disallowed character, the constructor's (name, version, build)
\* joined by "-" and followed by "." and ext is the file name again; the
\* stem is the name without ".tar.bz2" when it ends so; a name that ends in
\* neither extension is rejected with PackageError.
C1_RoundTrip ==
  (pc # "new" /\ tar.ok /\ get_bad_seq(basename(path)) = None) =>
    /\ (ExtOf(basename(path)) # None /\ Count(StemOf(basename(path)), "-") >= 2) =>
         /\ pkg.name \o "-" \o pkg.version \o "-" \o pkg.build
              \o "." \o ExtOf(basename(path)) = basename(path)
         /\ pkg.dist = StemOf(basename(path))
         /\ ~(last = "__init__" /\ out.fmt \in NameErrors)
    /\ ExtOf(basename(path)) = None =>
         /\ pc = "raised" /\ last = "__init__" /\ out.exc = "PackageError"
         /\ out.fmt = "did not expect filename: %s"

C1_Witness ==
  /\ pc = "ready"
  /\ path # basename(path)
  /\ endswith(path, ".tar.bz2")
  /\ pkg.name = "-" /\ pkg.version = "a" /\ pkg.build = "a"

\* C8: a file name whose stem has fewer than two "-" ends the constructor
\* in a hard failure (PackageError, PlatformError or ArchiveError), in no
\* other error and in no constructed object.
C8_HardFailure ==
  (/\ pc # "new" /\ tar.ok /\ get_bad_seq(basename(path)) = None
   /\ ExtOf(basename(path)) # None
   /\ Count(StemOf(basename(path)), "-") < 2) =>
    pc = "raised" /\ last = "__init__" /\ out.exc \in HardFailures

\* C5: check_duplicate_members raises PackageError exactly when two entries
\* of the archive have the same path, and returns otherwise.
C5_Duplicates ==
  last = "check_duplicate_members" =>
    /\ out.exc \in {"none", "PackageError"}
    /\ out.exc = "PackageError" <=>
         \E i, j \in 1..Len(tar.members) :
            i < j /\ tar.members[i].path = tar.members[j].path

C5_Witness ==
  /\ last = "check_duplicate_members"
  /\ out.exc = "PackageError"
  /\ Len(tar.members) = 3
  /\ tar.members[1].path # tar.members[2].path
  /\ tar.members[2].path = tar.members[3].path

\* the prefixes of the archive's entry paths: every stem an entry can have
StemsOfPaths == UNION {{SubSeq(p, 1, k) : k \in 0..Len(p)} : p \in pkg.paths}

\* C6: no_bat_and_exe raises PackageError exactly when some stem s has both
\* s.bat and s.exe among the archive's entry paths.
C6_Twins ==
  last = "no_bat_and_exe" =>
    /\ out.exc \in {"none", "PackageError"}
    /\ out.exc = "PackageError" <=>
         \E s \in StemsOfPaths : s \o ".bat" \in pkg.paths /\ s \o ".exe" \in pkg.paths

C6_Witness ==
  /\ last = "no_bat_and_exe"
  /\ out.exc = "PackageError"
  /\ {"bin/t.bat", "bin/t.exe"} \subseteq pkg.paths

\* what the archive's info/files holds, and the two sets info_files compares
ManifestRaw == tar.members[getmember(tar, "info/files")].text

Declared == {strip(l, Whitespace) : l \in Range(splitlines(ManifestRaw))}

Entries ==
  {m.path : m \in {x \in Range(tar.members) :
                     ~startswith(x.path, "info/") /\ x.type # "dir"}}

\* the differences info_files has to print
Differences ==
  {[fmt |-> "%r not in info/files", arg |-> p] : p \in Entries \ Declared}
    \cup {[fmt |-> "%r not in tarball", arg |-> p] : p \in Declared \ Entries}

\* what info_files requires of info/files before it compares
ManifestWellFormed ==
  /\ all_ascii(ManifestRaw, pkg.win_pkg)
  /\ \A p \in Declared : ~startswith(p, "info/")
  /\ Len(splitlines(ManifestRaw)) = Cardinality(Declared)

\* C2, as claimed: info_files returns exactly when the declared set equals
\* the set of entries; when they differ it prints every difference and
\* raises PackageError.
C2_ExactlyWhenEqual ==
  (last = "info_files" /\ getmember(tar, "info/files") # 0) =>
    /\ out.exc = "none" <=> Declared = Entries
    /\ Declared # Entries =>
         out.exc = "PackageError" /\ Differences \subseteq Range(out.printed)

\* C2, amended: for an archive that holds info/files, info_files returns
\* exactly when the manifest is well formed (ASCII only unless the target is
\* Windows, no line under info/, no line twice) and the declared set equals
\* the set of entries that are neither under info/ nor directories; a well
\* formed manifest that differs has every difference printed, and nothing
\* else, before PackageError; an ill-formed one raises PackageError and
\* prints nothing.
C2_Manifest ==
  (last = "info_files" /\ getmember(tar, "info/files") # 0) =>
    /\ out.exc \in {"none", "PackageError"}
    /\ out.exc = "none" <=> (ManifestWellFormed /\ Declared = Entries)
    /\ (ManifestWellFormed /\ Declared # Entries) =>
         /\ out.exc = "PackageError" /\ out.fmt = "info/files"
         /\ Range(out.printed) = Differences
    /\ ~ManifestWellFormed => out.exc = "PackageError" /\ out.printed = <<>>

C2_Witness ==
  /\ last = "info_files"
  /\ getmember(tar, "info/files") # 0
  /\ Declared = {"a.so", "b.txt"}
  /\ Entries = {"a.so", "c.txt"}
  /\ out.exc = "PackageError"
  /\ Len(out.printed) = 2

\* the lines of the archive's info/has_prefix
PrefixLines == splitlines(tar.members[getmember(tar, "info/has_prefix")].text)

\* the line splits into three tokens
Tokenized3(line) ==
  LET sp == shlex_split(strip(line, Whitespace))
  IN sp.ok /\ Len(sp.toks) = 3

HasPrefixRan ==
  /\ last = "has_prefix"
  /\ getmember(tar, "info/has_prefix") # 0
  /\ PrefixLines # <<>>

\* C3: records (placeholder, 'binary', target) with the target in the
\* archive are accepted exactly when the package is not 'python', the
\* target platform is not Windows and the placeholder is 255 long; any
\* other length raises the length-mismatch PackageError, and binary mode in
\* 'python' or for Windows raises PackageError.
C3_Binary ==
  (/\ HasPrefixRan
   /\ \A k \in 1..Len(PrefixLines) :
        /\ Tokenized3(PrefixLines[k])
        /\ has_prefix_fields(PrefixLines[k]).mode = "binary"
        /\ has_prefix_fields(PrefixLines[k]).f \in pkg.paths) =>
    /\ out.exc \in {"none", "PackageError"}
    /\ out.exc = "none" <=>
         /\ pkg.name # "python"
         /\ ~pkg.win_pkg
         /\ \A k \in 1..Len(PrefixLines) :
              Len(has_prefix_fields(PrefixLines[k]).placeholder) = 255
    /\ (/\ pkg.name # "python" /\ ~pkg.win_pkg
        /\ \E k \in 1..Len(PrefixLines) :
             Len(has_prefix_fields(PrefixLines[k]).placeholder) # 255) =>
         out.fmt = "info/has_prefix: binary placeholder not 255 bytes, but: %d"
    /\ pkg.name = "python" => out.fmt = "binary placeholder not allowed in Python"
    /\ (pkg.name # "python" /\ pkg.win_pkg) =>
         out.fmt = "binary placeholder not allowed on Windows"

C3_Witness ==
  /\ HasPrefixRan
  /\ Len(PrefixLines) = 1
  /\ Tokenized3(PrefixLines[1])
  /\ has_prefix_fields(PrefixLines[1]).mode = "binary"
  /\ has_prefix_fields(PrefixLines[1]).f = "lib/foo.so"
  /\ Len(PrefixLines[1]) > 255
  /\ out.exc = "none"

\* the stripped lines that are no entry path of the archive
MissingTargets ==
  {k \in 1..Len(PrefixLines) : strip(PrefixLines[k], Whitespace) \notin pkg.paths}

OddLinesRan == HasPrefixRan /\ \A k \in 1..Len(PrefixLines) : ~Tokenized3(PrefixLines[k])

Binaries ==
  {k \in 1..Len(tar.members) :
     \/ endswith(lower(tar.members[k].path), ".exe")
     \/ endswith(lower(tar.members[k].path), ".dll")}

Sniffed(k) ==
  get_object_type(read(tar.members[getmember(tar, tar.members[k].path)].bytes, 4096))

DeclaredType == IF pkg.info["arch"] = "x86" THEN "DLL I386" ELSE "DLL AMD64"

Mismatched == {k \in Binaries : Sniffed(k) # DeclaredType}

ArchRan ==
  /\ last = "check_windows_arch"
  /\ pkg.win_pkg
  /\ pkg.name \notin ArchExempt
  /\ "arch" \in DOMAIN pkg.info

\* C4: for a Windows archive of a package that is not exempt, declaring
\* x86 or x86_64, check_windows_arch raises PackageError, naming the first
\* such entry, if an entry whose lowercased name ends in .exe or .dll has
\* another object type than the declared one, and returns if all of them
\* have the declared type.
C4_Arch ==
  (ArchRan /\ pkg.info["arch"] \in {"x86", "x86_64"}) =>
    /\ Mismatched # {} =>
         /\ out.exc = "PackageError"
         /\ out.fmt = "File %s has object type %s, but info/index.json arch is %s"
         /\ out.arg = tar.members[CHOOSE k \in Mismatched :
                                    \A j \in Mismatched : k <= j].path
    /\ Mismatched = {} =>
         /\ out.exc = "none"
         /\ Range(out.reads) = {tar.members[k].path : k \in Binaries}

C4_Witness ==
  /\ ArchRan
  /\ pkg.info["arch"] = "x86_64"
  /\ Len(tar.members) = 3
  /\ tar.members[2].path = "b.exe"
  /\ tar.members[3].path = "Lib/C.DLL"
  /\ out.exc = "PackageError"
  /\ out.arg = "Lib/C.DLL"

\* C10, as claimed: a declared architecture other than x86 and x86_64 of a Windows
\* archive raises PlatformError; for other platforms the check neither
\* raises nor reads an entry.
C10_PlatformError ==
  /\ (/\ last = "check_windows_arch" /\ pkg.win_pkg
      /\ "arch" \in DOMAIN pkg.info
      /\ pkg.info["arch"] \notin {"x86", "x86_64"}) =>
       out.exc = "PlatformError"
  /\ (last = "check_windows_arch" /\ ~pkg.win_pkg) =>
       out.exc = "none" /\ out.reads = <<>>

\* C10, amended: for a Windows archive of a package that is not exempt,
\* declaring an architecture other than x86 and x86_64, check_windows_arch
\* raises PackageError 'Unrecognized Windows architecture' before reading
\* any entry; for an exempt package, and for other platforms, it returns
\* without reading an entry.
C10_Unrecognized ==
  /\ (ArchRan /\ pkg.info["arch"] \notin {"x86", "x86_64"}) =>
       /\ out.exc = "PackageError"
       /\ out.fmt = "Unrecognized Windows architecture: %s"
       /\ out.arg = pkg.info["arch"]
       /\ out.reads = <<>>
  /\ (last = "check_windows_arch" /\ (~pkg.win_pkg \/ pkg.name \in ArchExempt)) =>
       out.exc = "none" /\ out.reads = <<>> /\ out.printed = <<>>

C10_Witness ==
  /\ ArchRan
  /\ pkg.info["arch"] = "arm64"
  /\ Binaries # {}
  /\ out.exc = "PackageError"

\* the license family of a dictionary: license_family, else license, else
\* nothing
FamilyOf(d) ==
  IF "license_family" \in DOMAIN d THEN d["license_family"]
  ELSE IF "license" \in DOMAIN d THEN d["license"]
  ELSE None

LicenseKeys(d) == [k \in DOMAIN d \cap {"license_family", "license"} |-> d[k]]

\* index_json got as far as the license, and the recipe check ran on the
\* same license fields
LicenseRan ==
  /\ last = "index_json"
  /\ r_pc # "new"
  /\ "about" \in DOMAIN meta
  /\ LicenseKeys(pkg.info) = LicenseKeys(meta["about"])
  /\ \A k \in {"name", "version", "build"} : k \in DOMAIN pkg.info /\ pkg.info[k] = pkg[k]
  /\ "build_number" \in DOMAIN pkg.info
  /\ pkg.info["build_number"].type = "int"
  /\ "depends" \in DOMAIN pkg.info
  /\ common = CommonOk

\* C7, as claimed: on the same license fields index_json and
\* check_license_family accept the same values and fail with the same
\* outcome.
C7_Identical ==
  LicenseRan =>
    /\ out.exc = "none" <=> r_out.exc = "none"
    /\ out.exc = r_out.exc
    /\ out.printed = r_out.printed

\* C7, amended: on the same license fields index_json and
\* check_license_family accept exactly the values of the recognized set,
\* taking license_family, else license, else nothing; a value outside the
\* set makes index_json raise PackageError 'wrong license family: <value>'
\* and print nothing, and makes check_license_family print the value and
\* the recognized families and raise RecipeError.
C7_License ==
  LicenseRan =>
    /\ FamilyOf(pkg.info) \in Range(LICENSE_FAMILIES) =>
         out.exc = "none" /\ r_out.exc = "none"
    /\ FamilyOf(pkg.info) \notin Range(LICENSE_FAMILIES) =>
         /\ out.exc = "PackageError"
         /\ out.fmt = "wrong license family: %s"
         /\ out.arg = FamilyOf(pkg.info)
         /\ out.printed = <<>>
         /\ r_out.exc = "RecipeError"
         /\ r_out.fmt = "wrong license family"
         /\ r_out.printed[1] = [fmt |-> "Error: license_family is invalid: %s",
                                arg |-> FamilyOf(pkg.info)]
         /\ Len(r_out.printed) = 1 + Len(LICENSE_FAMILIES)

C7_Witness ==
  /\ LicenseRan
  /\ DOMAIN LicenseKeys(pkg.info) = {"license"}
  /\ pkg.info["license"] = "Bar"
  /\ out.exc = "PackageError"
  /\ r_out.exc = "RecipeError"

\* C11: in every run the archive the constructor opened is released in the
\* end, whether the checks completed, a check raised, or the constructor
\* itself raised after opening the archive.
C11_Released == (pkg.archive = "open") ~> (pkg.archive = "closed")

=============================================================================
